---- MODULE Spec2Model ----
(***************************************************************************)
(* Model of the hades test harness: the .env loader, the config resolver,  *)
(* the container controller operations, the connectivity checkers and the  *)
(* aggregate test runner.  Text is modelled as sequences of one-character  *)
(* strings so that strip / split / startswith / endswith are computed.     *)
(***************************************************************************)
EXTENDS Integers, Sequences, FiniteSets, TLC

VARIABLES
    \* ---- environment loader (load_env_file) ----
    envpc,        \* position of load_env_file: "idle", "call", "reading", "returned"
    environ,      \* os.environ: function from the keys that are set to their values
    environ0,     \* os.environ before the first load
    prevEnviron,  \* os.environ before the latest line was processed
    lastLine,     \* the latest raw line handed to the loop body (NoLine if none)
    nLines,       \* lines processed so far
    \* ---- aggregate runner (exec-tests.py) ----
    rpc,          \* position of main(): "idle", "start", "running", "returned"
    dirEntries,   \* test_cases/: whether it exists and what it holds
    test_files,   \* main(): test_files
    executed,     \* the files handed to run_test_case, in call order
    results,      \* main(): results
    printed,      \* the report lines main() has printed that the claims read
    exitCode,     \* the value main() returned (NoCode until it returns)
    moduleAttrs,  \* run_test_case: the attributes of the module it loaded
    invoked,      \* run_test_case: the name of the attribute it called (NoName if none)
    \* ---- container controller (ensure up / bring down / bring up) ----
    ctlOp,        \* the operation running: "none", "ensure", "down", "up"
    ctlpc,        \* its position
    compose_cmd,  \* the compose command selected by the version probes
    ctlLog,       \* every subprocess call and sleep made, in order
    ctlResult,    \* NoResult, or what the operation returned / raised
    \* ---- connectivity checkers (test_connection, both copies) ----
    connWho,      \* which copy runs: "none", "script", "testcase"
    connpc,       \* its position: "idle", "call", "query", "finally", "returned"
    config,       \* the Connection Config it was given (NoConfig if none)
    connState,    \* the connection: "none", "open", "closed"
    connPending,  \* how the inner try body ended, while the finally clause runs
    connLog,      \* every connect / fetchval / close call made, in order
    connResult,   \* NoResult, or what test_connection returned / raised
    \* ---- entry points (postgres-conn-test.py main, test_database_connection) ----
    mflow,        \* which entry point runs: "none", "script", "tdc"
    mpc,          \* its position
    envFile,      \* the .env file it finds: whether it exists and its lines
    mResult       \* NoResult, or how the entry point ended

envVars    == <<envpc, environ, environ0, prevEnviron, lastLine, nLines>>
runnerVars == <<rpc, dirEntries, test_files, executed, results, printed, exitCode,
               moduleAttrs, invoked>>
ctlVars    == <<ctlOp, ctlpc, compose_cmd, ctlLog, ctlResult>>
connVars   == <<connWho, connpc, config, connState, connPending, connLog, connResult>>
mainVars   == <<mflow, mpc, envFile, mResult>>
vars       == <<envVars, runnerVars, ctlVars, connVars, mainVars>>
nonEnvVars    == <<runnerVars, ctlVars, connVars, mainVars>>
nonRunnerVars == <<envVars, ctlVars, connVars, mainVars>>
nonCtlVars    == <<envVars, runnerVars, connVars, mainVars>>
nonConnVars   == <<envVars, runnerVars, ctlVars, mainVars>>
loaderTrace   == <<environ0, prevEnviron, lastLine, nLines>>

\* ------------------------------------------------------------------ bounds
MaxLines == 2      \* .env lines processed in one behaviour (over all loads)
MaxDirSize == 3    \* entries in the test_cases directory

\* ------------------------------------------------------------------ text
WS == {" ", "\t", "\n"}
DQ == "\""
SQ == "'"

\* str.lstrip() / str.rstrip() / str.strip()
RECURSIVE LStrip(_)
LStrip(s) == IF s # <<>> /\ Head(s) \in WS THEN LStrip(Tail(s)) ELSE s

RECURSIVE RStrip(_)
RStrip(s) ==
    IF s # <<>> /\ s[Len(s)] \in WS THEN RStrip(SubSeq(s, 1, Len(s) - 1)) ELSE s

Strip(s) == RStrip(LStrip(s))

\* str.startswith(p) / str.endswith(p)
StartsWith(s, p) == Len(s) >= Len(p) /\ SubSeq(s, 1, Len(p)) = p
EndsWith(s, p) ==
    Len(s) >= Len(p) /\ SubSeq(s, Len(s) - Len(p) + 1, Len(s)) = p

\* c in s, for a one-character c
Contains(s, c) == \E i \in 1..Len(s) : s[i] = c

\* s.find(c) + 1 : position of the first c (0 if there is none)
IndexOf(s, c) ==
    IF Contains(s, c)
    THEN CHOOSE i \in 1..Len(s) : s[i] = c /\ \A j \in 1..(i - 1) : s[j] # c
    ELSE 0

\* s.split(c, 1) for s that holds c : <<before, after>>
SplitFirst(s, c) ==
    <<SubSeq(s, 1, IndexOf(s, c) - 1), SubSeq(s, IndexOf(s, c) + 1, Len(s))>>

\* s[1:-1]
Slice1m1(s) == SubSeq(s, 2, Len(s) - 1)

\* ---------------------------------------------------- environment loader
NoLine == <<>>

\* "Remove quotes if present": the test and the slice of load_env_file
UnquoteValue(value) ==
    IF \/ (StartsWith(value, <<DQ>>) /\ EndsWith(value, <<DQ>>))
       \/ (StartsWith(value, <<SQ>>) /\ EndsWith(value, <<SQ>>))
    THEN Slice1m1(value)
    ELSE value

\* One pass of the loop body up to the assignment: whether the line is
\* skipped, and otherwise the key and the value it yields.
ParseEnvLine(raw) ==
    LET line == Strip(raw) IN
    IF line = <<>> \/ StartsWith(line, <<"#">>) THEN [skip |-> TRUE]
    ELSE IF ~Contains(line, "=") THEN [skip |-> TRUE]
    ELSE LET kv == SplitFirst(line, "=") IN
         [skip |-> FALSE, key |-> Strip(kv[1]), value |-> UnquoteValue(Strip(kv[2]))]

\* "if key and key not in os.environ: os.environ[key] = value"
SetEnvMutantOverwrite(env, key, value) ==
    IF key # <<>>
    THEN [k \in DOMAIN env \cup {key} |-> IF k = key THEN value ELSE env[k]]
    ELSE env

SetEnvIfAbsent(env, key, value) ==
    IF key # <<>> /\ key \notin DOMAIN env
    THEN [k \in DOMAIN env \cup {key} |-> IF k = key THEN value ELSE env[k]]
    ELSE env

\* The whole loop body for one line
ProcessEnvLine(env, raw) ==
    LET p == ParseEnvLine(raw) IN
    IF p.skip THEN env ELSE SetEnvIfAbsent(env, p.key, p.value)

\* load_env_file over the lines of an existing file
RECURSIVE LoadEnvLines(_, _)
LoadEnvLines(env, lines) ==
    IF lines = <<>> THEN env
    ELSE LoadEnvLines(ProcessEnvLine(env, Head(lines)), Tail(lines))

\* ---- the lines and environments the loader is run on
EnvKeyTexts == {<<"A">>, <<"B">>, <<>>}
EnvValueTexts ==
    { <<>>, <<"v">>, <<DQ, "v", DQ>>, <<SQ, "v", SQ>>, <<DQ>>, <<SQ>>,
      <<DQ, DQ>>, <<DQ, "v", SQ>>, <<DQ, DQ, "v", DQ, DQ>>, <<"v", "=", "w">> }
KeyValueLines ==
    { k \o <<"=">> \o v \o <<"\n">> : k \in EnvKeyTexts, v \in EnvValueTexts }
    \cup
    { <<" ">> \o k \o <<" ", "=", "\t">> \o v \o <<" ", "\n">> :
          k \in EnvKeyTexts, v \in EnvValueTexts }
OtherLines ==
    { <<"\n">>, <<" ", "\n">>, <<"#", "A", "=", "v", "\n">>,
      <<" ", "#", "c">>, <<"A", "\n">>, <<"A", " ", "v">> }
EnvLines == KeyValueLines \cup OtherLines

OldValue == <<"o">>
InitialEnvs == UNION { [ks -> {OldValue, <<>>}] : ks \in SUBSET {<<"A">>, <<"B">>} }

NoDir == [exists |-> FALSE, entries |-> {}]
NoName == <<>>
NoCode == 0 - 1

EnvIdle ==
    /\ envpc = "idle" /\ environ = <<>> /\ environ0 = <<>> /\ prevEnviron = <<>>
    /\ lastLine = NoLine /\ nLines = 0

RunnerIdle ==
    /\ rpc = "idle" /\ dirEntries = NoDir /\ test_files = <<>> /\ executed = <<>>
    /\ results = <<>> /\ printed = {} /\ exitCode = NoCode
    /\ moduleAttrs = {} /\ invoked = NoName

NoResult == [kind |-> "none", success |-> FALSE, message |-> ""]

CtlIdle ==
    /\ ctlOp = "none" /\ ctlpc = "idle" /\ compose_cmd = "None"
    /\ ctlLog = <<>> /\ ctlResult = NoResult

NoConfig == [raised |-> TRUE]
NoFile == [exists |-> FALSE, lines |-> <<>>]
NoPending == [kind |-> "none", exc |-> "none", result |-> NoResult]

ConnIdle ==
    /\ connWho = "none" /\ connpc = "idle" /\ config = NoConfig /\ connState = "none"
    /\ connPending = NoPending /\ connLog = <<>> /\ connResult = NoResult

MainIdle == mflow = "none" /\ mpc = "idle" /\ envFile = NoFile /\ mResult = NoResult

InitEnv ==
    /\ envpc = "call"
    /\ environ \in InitialEnvs
    /\ environ0 = environ
    /\ prevEnviron = environ
    /\ lastLine = NoLine
    /\ nLines = 0
    /\ RunnerIdle
    /\ CtlIdle
    /\ ConnIdle
    /\ MainIdle

\* load_env_file up to "with env_path.open()": a missing file is a silent return
LoadEnvOpen ==
    /\ envpc = "call"
    /\ \E exists \in BOOLEAN :
          envpc' = IF exists THEN "reading" ELSE "returned"
    /\ UNCHANGED <<environ, environ0, prevEnviron, lastLine, nLines, nonEnvVars>>

\* load_env_file: the loop body, for the next line of the file being read
LoadEnvLine ==
    /\ envpc = "reading"
    /\ nLines < MaxLines
    /\ \E raw \in EnvLines :
        /\ environ' = ProcessEnvLine(environ, raw)
        /\ lastLine' = raw
    /\ prevEnviron' = environ
    /\ nLines' = nLines + 1
    /\ UNCHANGED <<envpc, environ0, nonEnvVars>>

\* load_env_file: end of file
LoadEnvEOF ==
    /\ envpc = "reading"
    /\ envpc' = "returned"
    /\ UNCHANGED <<environ, environ0, prevEnviron, lastLine, nLines, nonEnvVars>>

\* a later call of load_env_file in the same process
LoadEnvAgain ==
    /\ envpc = "returned"
    /\ nLines < MaxLines
    /\ envpc' = "call"
    /\ UNCHANGED <<environ, environ0, prevEnviron, lastLine, nLines, nonEnvVars>>

NextEnv == LoadEnvOpen \/ LoadEnvLine \/ LoadEnvEOF \/ LoadEnvAgain

SpecEnv == InitEnv /\ [][NextEnv]_vars

\* ------------------------------------------------------- aggregate runner
\* Code points of the characters file names are made of (str comparison)
CharCode ==
    [c \in {".", "B", "_", "a", "b", "c", "d", "e", "h", "l", "p", "r", "s", "t", "x", "y"} |->
        CASE c = "." -> 46  [] c = "B" -> 66  [] c = "_" -> 95  [] c = "a" -> 97
          [] c = "b" -> 98  [] c = "c" -> 99  [] c = "d" -> 100 [] c = "e" -> 101
          [] c = "h" -> 104 [] c = "l" -> 108 [] c = "p" -> 112 [] c = "r" -> 114
          [] c = "s" -> 115 [] c = "t" -> 116 [] c = "x" -> 120 [] c = "y" -> 121]

\* a < b for two strings (Path.__lt__ of two entries of one directory)
RECURSIVE StrLess(_, _)
StrLess(a, b) ==
    IF b = <<>> THEN FALSE
    ELSE IF a = <<>> THEN TRUE
    ELSE IF Head(a) # Head(b) THEN CharCode[Head(a)] < CharCode[Head(b)]
    ELSE StrLess(Tail(a), Tail(b))

\* s.rfind(c) + 1 : position of the last c (0 if there is none)
LastIndexOf(s, c) ==
    IF Contains(s, c)
    THEN CHOOSE i \in 1..Len(s) : s[i] = c /\ \A j \in (i + 1)..Len(s) : s[j] # c
    ELSE 0

\* Path.suffix and Path.stem of a file name
PathSuffix(name) ==
    LET i == LastIndexOf(name, ".") IN
    IF 1 < i /\ i < Len(name) THEN SubSeq(name, i, Len(name)) ELSE <<>>

PathStem(name) ==
    LET i == LastIndexOf(name, ".") IN
    IF 1 < i /\ i < Len(name) THEN SubSeq(name, 1, i - 1) ELSE name

TestPrefix == <<"t", "e", "s", "t", "_">>
PySuffix == <<".", "p", "y">>

\* sorted(test_files): the ascending arrangement of a set of paths
RECURSIVE SortedMutantUnsorted(_)
SortedMutantUnsorted(files) ==
    IF files = {} THEN <<>>
    ELSE LET last == CHOOSE f \in files : \A g \in files \ {f} : StrLess(g, f)
         IN  <<last>> \o SortedMutantUnsorted(files \ {last})

RECURSIVE Sorted(_)
Sorted(files) ==
    IF files = {} THEN <<>>
    ELSE LET first == CHOOSE f \in files : \A g \in files \ {f} : StrLess(f, g)
         IN  <<first>> \o Sorted(files \ {first})

\* discover_test_cases(test_dir)
discover_test_cases(dir) ==
    IF ~dir.exists THEN <<>>
    ELSE Sorted({ e.name : e \in { d \in dir.entries :
                      /\ d.isFile
                      /\ PathSuffix(d.name) = PySuffix
                      /\ StartsWith(d.name, TestPrefix) } })

\* ---- what a test file does when it is loaded and its function is called
ExcTexts == {"boom"}
TestMessages == {"ok", "bad"}
TestBehaviours ==
    {[kind |-> "specNone"], [kind |-> "noFunction"]}
    \cup [kind : {"loadRaises"}, exc : ExcTexts]
    \cup [kind : {"raises"}, via : {"exact", "fallback"}, exc : ExcTexts]
    \cup [kind : {"badReturn"}, via : {"exact", "fallback"}]
    \cup [kind : {"returns"}, via : {"exact", "fallback"},
          success : BOOLEAN, message : TestMessages]

\* The exception, if any, that the try block of run_test_case raises
RaisedInTry(b) ==
    CASE b.kind = "loadRaises" -> b.exc
      [] b.kind = "raises" -> b.exc
      [] b.kind = "badReturn" -> "cannot unpack"
      [] OTHER -> "none"

\* The "except Exception as e" clause of run_test_case
\* (escaped: the exception leaves run_test_case; result: the tuple returned)
ExceptClauseMutantNarrow(test_name, exc) ==
    [escaped |-> TRUE, result |-> <<test_name, FALSE, <<exc>>>>]

ExceptClause(test_name, exc) ==
    [escaped |-> FALSE, result |-> <<test_name, FALSE, <<"Test execution error: ", exc>>>>]

Returned(tuple) == [escaped |-> FALSE, result |-> tuple]

\* run_test_case(test_file) for a file that behaves as b
run_test_case(test_file, b) ==
    LET test_name == PathStem(test_file) IN
    IF RaisedInTry(b) # "none" THEN ExceptClause(test_name, RaisedInTry(b))
    ELSE IF b.kind = "specNone"
         THEN Returned(<<test_name, FALSE, <<"Failed to load test module: ", test_file>>>>)
    ELSE IF b.kind = "noFunction"
         THEN Returned(<<test_name, FALSE, <<"No test function found in module">>>>)
    ELSE Returned(<<test_name, b.success, <<b.message>>>>)

\* ---- the directories the runner is started on
FileNames ==
    { TestPrefix \o <<"a">> \o PySuffix, TestPrefix \o <<"b">> \o PySuffix,
      TestPrefix \o <<"a", "b">> \o PySuffix, TestPrefix \o <<"B">> \o PySuffix }
DirUniverse ==
    [name : FileNames, isFile : {TRUE}]
    \cup { [name |-> <<"h", "e", "l", "p", "e", "r">> \o PySuffix, isFile |-> TRUE],
           [name |-> TestPrefix \o <<"c", ".", "t", "x", "t">>, isFile |-> TRUE],
           [name |-> TestPrefix \o <<"e">> \o PySuffix \o <<"c">>, isFile |-> TRUE],
           [name |-> TestPrefix \o <<"d">> \o PySuffix, isFile |-> FALSE] }

InitRunner ==
    /\ rpc = "start"
    /\ dirEntries \in {NoDir} \cup
           [exists : {TRUE},
            entries : { d \in SUBSET DirUniverse : Cardinality(d) <= MaxDirSize }]
    /\ test_files = <<>> /\ executed = <<>> /\ results = <<>>
    /\ printed = {} /\ exitCode = NoCode
    /\ moduleAttrs = {} /\ invoked = NoName
    /\ EnvIdle
    /\ CtlIdle
    /\ ConnIdle
    /\ MainIdle

\* main(): discovery, and the early return when nothing was found
RunnerDiscover ==
    /\ rpc = "start"
    /\ test_files' = discover_test_cases(dirEntries)
    /\ IF test_files' = <<>>
       THEN /\ printed' = printed \cup {<<"ERROR: No test cases found in test_cases directory">>}
            /\ exitCode' = 1
            /\ rpc' = "returned"
       ELSE /\ printed' = printed \cup {<<"Found", Len(test_files'), "test case(s)">>}
            /\ rpc' = "running"
            /\ UNCHANGED exitCode
    /\ UNCHANGED <<dirEntries, executed, results, moduleAttrs, invoked, nonRunnerVars>>

\* main(): one pass of "for test_file in test_files".  main() has no handler
\* of its own: an exception leaving run_test_case would end it.
RunnerRunTest ==
    /\ rpc = "running"
    /\ Len(results) < Len(test_files)
    /\ LET test_file == test_files[Len(results) + 1] IN
       \E b \in TestBehaviours :
          LET r == run_test_case(test_file, b) IN
          /\ executed' = Append(executed, [file |-> test_file, behaviour |-> b])
          /\ IF r.escaped
             THEN rpc' = "crashed" /\ UNCHANGED results
             ELSE results' = Append(results, r.result) /\ UNCHANGED rpc
    /\ UNCHANGED <<dirEntries, test_files, printed, exitCode, moduleAttrs, invoked,
                   nonRunnerVars>>

Passed(res) == Cardinality({ i \in 1..Len(res) : res[i][2] })

ExitStatusMutantAlwaysZero(failed) == 0

\* "return 0 if failed == 0 else 1"
ExitStatus(failed) == IF failed = 0 THEN 0 ELSE 1

\* main(): the summary and the return value
RunnerSummarize ==
    /\ rpc = "running"
    /\ Len(results) = Len(test_files)
    /\ LET passed == Passed(results)
           failed == Len(results) - passed
       IN  /\ printed' = printed \cup
                 {<<"Total:", Len(results), "Passed:", passed, "Failed:", failed>>}
           /\ exitCode' = ExitStatus(failed)
    /\ rpc' = "returned"
    /\ UNCHANGED <<dirEntries, test_files, executed, results, moduleAttrs, invoked,
                   nonRunnerVars>>

NextRunner == RunnerDiscover \/ RunnerRunTest \/ RunnerSummarize

SpecRunner == InitRunner /\ [][NextRunner]_vars

\* ------------------------------------- run_test_case: the function lookup
\* s.replace(old, ""): every occurrence of old, left to right, is removed
RECURSIVE RemoveAll(_, _)
RemoveAll(s, old) ==
    IF Len(s) < Len(old) THEN s
    ELSE IF StartsWith(s, old) THEN RemoveAll(SubSeq(s, Len(old) + 1, Len(s)), old)
    ELSE <<Head(s)>> \o RemoveAll(Tail(s), old)

\* f"test_{test_name.replace('test_', '')}"
ExpectedFuncName(test_name) == TestPrefix \o RemoveAll(test_name, TestPrefix)

\* The first entry of dir(module), which is sorted, that starts with "test_" and is callable
FirstTestCallable(attrs) ==
    LET cands == { a \in attrs : StartsWith(a.name, TestPrefix) /\ a.callable } IN
    CHOOSE a \in cands : \A b \in cands \ {a} : StrLess(a.name, b.name)

\* "Check if test function exists": hasattr / getattr of the expected name,
\* else the search through dir(module)
find_test_func(test_name, attrs) ==
    IF \E a \in attrs : a.name = ExpectedFuncName(test_name)
    THEN [via |-> "exact", name |-> ExpectedFuncName(test_name),
          callable |-> (CHOOSE a \in attrs : a.name = ExpectedFuncName(test_name)).callable]
    ELSE IF \E a \in attrs : StartsWith(a.name, TestPrefix) /\ a.callable
    THEN [via |-> "fallback", name |-> FirstTestCallable(attrs).name, callable |-> TRUE]
    ELSE [via |-> "none", name |-> NoName, callable |-> FALSE]

\* What a loaded module with these attributes does in run_test_case when the
\* function that is found ends as `call`: calling an attribute that is not
\* callable raises TypeError
ModuleBehaviour(test_name, attrs, call) ==
    LET f == find_test_func(test_name, attrs) IN
    IF f.via = "none" THEN [kind |-> "noFunction"]
    ELSE IF ~f.callable THEN [kind |-> "raises", via |-> f.via, exc |-> "object is not callable"]
    ELSE IF call = "raises" THEN [kind |-> "raises", via |-> f.via, exc |-> "boom"]
    ELSE [kind |-> "returns", via |-> f.via, success |-> TRUE, message |-> "ok"]

\* ---- the files and modules the lookup is run on
LookupFiles ==
    { TestPrefix \o <<"a">> \o PySuffix, TestPrefix \o <<"b">> \o PySuffix,
      TestPrefix \o TestPrefix \o <<"a">> \o PySuffix }
AttrNames ==
    { TestPrefix \o <<"a">>, TestPrefix \o <<"b">>, TestPrefix \o TestPrefix \o <<"a">>,
      <<"h", "e", "l", "p", "e", "r">> }
Modules ==
    { m \in SUBSET [name : AttrNames, callable : BOOLEAN] :
        \A a, b \in m : a.name = b.name => a = b }

InitLookup ==
    /\ rpc = "call"
    /\ dirEntries = NoDir
    /\ test_files \in { <<f>> : f \in LookupFiles }
    /\ moduleAttrs \in Modules
    /\ invoked = NoName
    /\ executed = <<>> /\ results = <<>> /\ printed = {} /\ exitCode = NoCode
    /\ EnvIdle /\ CtlIdle /\ ConnIdle /\ MainIdle

\* run_test_case(test_file) on a module that loads: the lookup, the call and the return
RunTestCaseLookup ==
    /\ rpc = "call"
    /\ LET test_file == test_files[1]
           f == find_test_func(PathStem(test_file), moduleAttrs)
       IN  \E call \in {"returns", "raises"} :
              LET b == ModuleBehaviour(PathStem(test_file), moduleAttrs, call) IN
              /\ invoked' = IF f.via # "none" /\ f.callable THEN f.name ELSE NoName
              /\ executed' = Append(executed, [file |-> test_file, behaviour |-> b])
              /\ results' = Append(results, run_test_case(test_file, b).result)
    /\ rpc' = "called"
    /\ UNCHANGED <<dirEntries, test_files, printed, exitCode, moduleAttrs, nonRunnerVars>>

NextLookup == RunTestCaseLookup

SpecLookup == InitLookup /\ [][NextLookup]_vars

\* -------------------------------------------------- container controller
\* Timeouts and settle intervals, in seconds
ProbeTimeout == 5
StatusTimeout == 10
StartTimeout == 60
RunCommandTimeout == 60
EnsureSettle == 5
DownPrepareSettle == 3
DownSettle == 2
UpPrepareSettle == 2
UpSettle == 3

ServiceName == <<"d", "b">>

\* sub in s
ContainsSub(s, sub) ==
    \E i \in 1..(Len(s) - Len(sub) + 1) : SubSeq(s, i, i + Len(sub) - 1) = sub

\* ---- what one subprocess.run call can do
Exited(code, out) == [kind |-> "exit", code |-> code, stdout |-> out]
TimedOut == [kind |-> "timeout", code |-> NoCode, stdout |-> <<>>]   \* TimeoutExpired
NotFound == [kind |-> "notfound", code |-> NoCode, stdout |-> <<>>]  \* FileNotFoundError
OtherError == [kind |-> "error", code |-> NoCode, stdout |-> <<>>]   \* another exception
Slept == [kind |-> "slept", code |-> 0, stdout |-> <<>>]

PsListings ==
    { <<>>, <<"N", "A", "M", "E">>, <<"h", "a", "d", "e", "s", "-", "d", "b", "-", "1">> }
CmdOutcomes == {Exited(0, <<>>), Exited(1, <<>>), TimedOut, NotFound, OtherError}
PsOutcomes ==
    { Exited(c, out) : c \in {0, 1}, out \in PsListings } \cup {TimedOut, NotFound, OtherError}

Call(cmd, via, secs, o) == [cmd |-> cmd, via |-> via, secs |-> secs, outcome |-> o]
Sleep(secs) == [cmd |-> "sleep", via |-> "time", secs |-> secs, outcome |-> Slept]

Success(msg) == [kind |-> "returned", success |-> TRUE, message |-> msg]
Failure(msg) == [kind |-> "returned", success |-> FALSE, message |-> msg]
Raised(exc) == [kind |-> "raised", success |-> FALSE, message |-> exc]

\* run_command(cmd): exit code, stdout, stderr
run_command(o) ==
    CASE o.kind = "exit" -> [code |-> o.code, stdout |-> o.stdout, stderr |-> "stderr"]
      [] o.kind = "timeout" -> [code |-> 1, stdout |-> <<>>, stderr |-> "Command timed out"]
      [] OTHER -> [code |-> 1, stdout |-> <<>>, stderr |-> "str(e)"]

ComposeForm(pc) == IF pc = "probe1" THEN "docker compose" ELSE "docker-compose"

InitCtl ==
    /\ ctlOp \in {"ensure", "down", "up"}
    /\ ctlpc = "begin"
    /\ compose_cmd = "None"
    /\ ctlLog = <<>>
    /\ ctlResult = NoResult
    /\ EnvIdle
    /\ RunnerIdle
    /\ ConnIdle
    /\ MainIdle

\* "if not compose_file.exists(): return False, ..." of the three operations
CtlBegin ==
    /\ ctlpc = "begin"
    /\ \E exists \in BOOLEAN :
          IF exists
          THEN ctlpc' = "probe1" /\ UNCHANGED ctlResult
          ELSE ctlpc' = "returned" /\ ctlResult' = Failure("docker-compose.yml not found")
    /\ UNCHANGED <<ctlOp, compose_cmd, ctlLog, nonCtlVars>>

\* get_compose_command() of test_container_down / test_container_up: one
\* version probe; "if not compose_cmd" follows the second failed probe
ProbeCompose ==
    /\ ctlOp \in {"down", "up"}
    /\ ctlpc \in {"probe1", "probe2"}
    /\ \E o \in CmdOutcomes :
          /\ ctlLog' = Append(ctlLog, Call("version", ComposeForm(ctlpc), RunCommandTimeout, o))
          /\ IF run_command(o).code = 0
             THEN /\ compose_cmd' = ComposeForm(ctlpc)
                  /\ ctlpc' = "prepare"
                  /\ UNCHANGED ctlResult
             ELSE IF ctlpc = "probe1"
             THEN ctlpc' = "probe2" /\ UNCHANGED <<compose_cmd, ctlResult>>
             ELSE /\ ctlpc' = "returned"
                  /\ ctlResult' = Failure("Docker Compose not available")
                  /\ UNCHANGED compose_cmd
    /\ UNCHANGED <<ctlOp, nonCtlVars>>

\* test_container_down: "Ensure container is up first"
DownPrepare ==
    /\ ctlOp = "down" /\ ctlpc = "prepare"
    /\ \E o \in CmdOutcomes :
          ctlLog' = ctlLog \o <<Call("up", compose_cmd, RunCommandTimeout, o),
                                Sleep(DownPrepareSettle)>>
    /\ ctlpc' = "main"
    /\ UNCHANGED <<ctlOp, compose_cmd, ctlResult, nonCtlVars>>

\* test_container_down: "Stop container"
DownStop ==
    /\ ctlOp = "down" /\ ctlpc = "main"
    /\ \E o \in CmdOutcomes :
          IF run_command(o).code # 0
          THEN /\ ctlLog' = Append(ctlLog, Call("stop", compose_cmd, RunCommandTimeout, o))
               /\ ctlResult' = Failure("Failed to stop container")
               /\ ctlpc' = "returned"
          ELSE /\ ctlLog' = ctlLog \o <<Call("stop", compose_cmd, RunCommandTimeout, o),
                                        Sleep(DownSettle)>>
               /\ ctlpc' = "verify"
               /\ UNCHANGED ctlResult
    /\ UNCHANGED <<ctlOp, compose_cmd, nonCtlVars>>

\* test_container_down: "Check if container is stopped"
DownVerify ==
    /\ ctlOp = "down" /\ ctlpc = "verify"
    /\ \E o \in PsOutcomes :
          /\ ctlLog' = Append(ctlLog, Call("ps", compose_cmd, RunCommandTimeout, o))
          /\ ctlResult' = IF ContainsSub(run_command(o).stdout, ServiceName)
                          THEN Failure("Container is still running after stop command")
                          ELSE Success("Container successfully brought down")
    /\ ctlpc' = "returned"
    /\ UNCHANGED <<ctlOp, compose_cmd, nonCtlVars>>

\* test_container_up: "Stop container first to ensure clean state"
UpPrepare ==
    /\ ctlOp = "up" /\ ctlpc = "prepare"
    /\ \E o \in CmdOutcomes :
          ctlLog' = ctlLog \o <<Call("stop", compose_cmd, RunCommandTimeout, o),
                                Sleep(UpPrepareSettle)>>
    /\ ctlpc' = "main"
    /\ UNCHANGED <<ctlOp, compose_cmd, ctlResult, nonCtlVars>>

\* test_container_up: "Start container"
UpStart ==
    /\ ctlOp = "up" /\ ctlpc = "main"
    /\ \E o \in CmdOutcomes :
          IF run_command(o).code # 0
          THEN /\ ctlLog' = Append(ctlLog, Call("up", compose_cmd, RunCommandTimeout, o))
               /\ ctlResult' = Failure("Failed to start container")
               /\ ctlpc' = "returned"
          ELSE /\ ctlLog' = ctlLog \o <<Call("up", compose_cmd, RunCommandTimeout, o),
                                        Sleep(UpSettle)>>
               /\ ctlpc' = "verify"
               /\ UNCHANGED ctlResult
    /\ UNCHANGED <<ctlOp, compose_cmd, nonCtlVars>>

\* test_container_up: "Check if container is running"
UpVerify ==
    /\ ctlOp = "up" /\ ctlpc = "verify"
    /\ \E o \in PsOutcomes :
          /\ ctlLog' = Append(ctlLog, Call("ps", compose_cmd, RunCommandTimeout, o))
          /\ ctlResult' =
                IF run_command(o).code # 0 \/ ~ContainsSub(run_command(o).stdout, ServiceName)
                THEN Failure("Container started but not running")
                ELSE Success("Container successfully brought up and is running")
    /\ ctlpc' = "returned"
    /\ UNCHANGED <<ctlOp, compose_cmd, nonCtlVars>>

\* ensure_container_running: "Detect compose command", one pass of the loop
\* (check=True, timeout=5); "if not compose_cmd" follows the second failure
EnsureProbe ==
    /\ ctlOp = "ensure"
    /\ ctlpc \in {"probe1", "probe2"}
    /\ \E o \in CmdOutcomes :
          /\ ctlLog' = Append(ctlLog, Call("version", ComposeForm(ctlpc), ProbeTimeout, o))
          /\ IF o.kind = "exit" /\ o.code = 0
             THEN /\ compose_cmd' = ComposeForm(ctlpc)
                  /\ ctlpc' = "check"
                  /\ UNCHANGED ctlResult
             ELSE IF o.kind = "error"
             THEN /\ ctlpc' = "returned"
                  /\ ctlResult' = Raised("exception of the version probe")
                  /\ UNCHANGED compose_cmd
             ELSE IF ctlpc = "probe1"
             THEN ctlpc' = "probe2" /\ UNCHANGED <<compose_cmd, ctlResult>>
             ELSE /\ ctlpc' = "returned"
                  /\ ctlResult' = Failure("Docker Compose not available")
                  /\ UNCHANGED compose_cmd
    /\ UNCHANGED <<ctlOp, nonCtlVars>>

\* The two handlers of the try block of ensure_container_running
EnsureExcept(o) ==
    IF o.kind = "timeout" THEN Failure("Command timed out")
    ELSE Failure("Error ensuring container is running")

\* ensure_container_running: "Check if container is running"
EnsureCheck ==
    /\ ctlOp = "ensure" /\ ctlpc = "check"
    /\ \E o \in PsOutcomes :
          /\ ctlLog' = Append(ctlLog, Call("ps", compose_cmd, StatusTimeout, o))
          /\ IF o.kind # "exit"
             THEN ctlResult' = EnsureExcept(o) /\ ctlpc' = "returned"
             ELSE IF ContainsSub(o.stdout, ServiceName)
             THEN ctlResult' = Success("Container is already running") /\ ctlpc' = "returned"
             ELSE ctlpc' = "start" /\ UNCHANGED ctlResult
    /\ UNCHANGED <<ctlOp, compose_cmd, nonCtlVars>>

StartFailedMutantIgnored(returncode) == FALSE

\* "if result.returncode != 0" after the detached start
StartFailed(returncode) == returncode # 0

\* ensure_container_running: "Start container" up to the final return
EnsureStart ==
    /\ ctlOp = "ensure" /\ ctlpc = "start"
    /\ \E o \in CmdOutcomes :
          IF o.kind # "exit"
          THEN /\ ctlLog' = Append(ctlLog, Call("up", compose_cmd, StartTimeout, o))
               /\ ctlResult' = EnsureExcept(o)
          ELSE IF StartFailed(o.code)
          THEN /\ ctlLog' = Append(ctlLog, Call("up", compose_cmd, StartTimeout, o))
               /\ ctlResult' = Failure("Failed to start container")
          ELSE /\ ctlLog' = ctlLog \o <<Call("up", compose_cmd, StartTimeout, o),
                                        Sleep(EnsureSettle)>>
               /\ ctlResult' = Success("Container started successfully")
    /\ ctlpc' = "returned"
    /\ UNCHANGED <<ctlOp, compose_cmd, nonCtlVars>>

NextCtl ==
    \/ CtlBegin \/ ProbeCompose
    \/ DownPrepare \/ DownStop \/ DownVerify
    \/ UpPrepare \/ UpStart \/ UpVerify
    \/ EnsureProbe \/ EnsureCheck \/ EnsureStart

SpecCtl == InitCtl /\ [][NextCtl]_vars

\* ------------------------------------------------------- config resolver
PG == <<"P", "O", "S", "T", "G", "R", "E", "S", "_">>
POSTGRES_HOST == PG \o <<"H", "O", "S", "T">>
POSTGRES_PORT == PG \o <<"P", "O", "R", "T">>
POSTGRES_USER == PG \o <<"U", "S", "E", "R">>
POSTGRES_PASSWORD == PG \o <<"P", "A", "S", "S", "W", "O", "R", "D">>
POSTGRES_DB == PG \o <<"D", "B">>

DefaultHost == <<"l", "o", "c", "a", "l", "h", "o", "s", "t">>
DefaultPort == <<"5", "4", "3", "2">>
DefaultUser == <<"h", "a", "d", "e", "s">>
DefaultDatabase == <<"h", "a", "d", "e", "s", "_", "d", "b">>

\* os.getenv(key, default)
Getenv(env, key, default) == IF key \in DOMAIN env THEN env[key] ELSE default

DigitValue ==
    [c \in {"0", "1", "2", "3", "4", "5", "6", "7", "8", "9"} |->
        CASE c = "0" -> 0 [] c = "1" -> 1 [] c = "2" -> 2 [] c = "3" -> 3 [] c = "4" -> 4
          [] c = "5" -> 5 [] c = "6" -> 6 [] c = "7" -> 7 [] c = "8" -> 8 [] c = "9" -> 9]

RECURSIVE DigitsToInt(_)
DigitsToInt(ds) ==
    IF ds = <<>> THEN 0
    ELSE 10 * DigitsToInt(SubSeq(ds, 1, Len(ds) - 1)) + DigitValue[ds[Len(ds)]]

\* int(text): surrounding whitespace and one sign are accepted, then decimal
\* digits; anything else is a ValueError
IntParse(text) ==
    LET t == Strip(text)
        signed == t # <<>> /\ Head(t) \in {"+", "-"}
        ds == IF signed THEN Tail(t) ELSE t
    IN  IF ds # <<>> /\ \A i \in 1..Len(ds) : ds[i] \in DOMAIN DigitValue
        THEN [ok |-> TRUE,
              value |-> IF signed /\ Head(t) = "-" THEN 0 - DigitsToInt(ds) ELSE DigitsToInt(ds)]
        ELSE [ok |-> FALSE, value |-> 0]

\* "Strip quotes if present" of get_db_config
StripPasswordQuotes(password) ==
    IF StartsWith(password, <<DQ>>) /\ EndsWith(password, <<DQ>>) THEN Slice1m1(password)
    ELSE IF StartsWith(password, <<SQ>>) /\ EndsWith(password, <<SQ>>) THEN Slice1m1(password)
    ELSE password

\* get_db_config(): the five-field config, or the ValueError of int()
get_db_config(env) ==
    LET port == IntParse(Getenv(env, POSTGRES_PORT, DefaultPort)) IN
    IF ~port.ok THEN [raised |-> TRUE]
    ELSE [raised |-> FALSE,
          host |-> Getenv(env, POSTGRES_HOST, DefaultHost),
          port |-> port.value,
          user |-> Getenv(env, POSTGRES_USER, DefaultUser),
          password |-> StripPasswordQuotes(Getenv(env, POSTGRES_PASSWORD, <<>>)),
          database |-> Getenv(env, POSTGRES_DB, DefaultDatabase)]

\* load_env_file(), start to end, on the file the entry point finds
load_env_file(env, file) == IF file.exists THEN LoadEnvLines(env, file.lines) ELSE env

\* ---- the environments and .env files the entry points are started with
EnvLine(key, value) == key \o <<"=">> \o value \o <<"\n">>
FlowEnvs ==
    { [k \in ks |-> CASE k = POSTGRES_PASSWORD -> pw [] k = POSTGRES_USER -> <<>>
                      [] OTHER -> pt] :
        ks \in SUBSET {POSTGRES_PASSWORD, POSTGRES_USER, POSTGRES_PORT},
        pw \in {<<"s">>, <<DQ, DQ>>},
        pt \in {<<"x">>, <<" ", "8", "0">>} }
FlowFiles ==
    { NoFile,
      [exists |-> TRUE, lines |-> <<EnvLine(POSTGRES_PASSWORD, <<DQ, "s", DQ>>)>>],
      [exists |-> TRUE, lines |-> <<EnvLine(POSTGRES_PASSWORD, <<>>),
                                    EnvLine(POSTGRES_PORT, <<"5", "4", "3", "3">>)>>],
      [exists |-> TRUE, lines |-> <<EnvLine(POSTGRES_PASSWORD, <<"s">>),
                                    EnvLine(POSTGRES_PORT, <<"p">>)>>] }
ConnConfigs ==
    { get_db_config(load_env_file(e, f)) : e \in {<<>>}, f \in FlowFiles }
        \ {[raised |-> TRUE]}

\* --------------------------------------------------- connectivity checker
ConnectOutcomes == {"ok", "PostgresError", "Exception"}
FetchValues == {0, 1, 2}
FetchOutcomes ==
    [kind : {"value"}, value : FetchValues, exc : {"none"}]
    \cup [kind : {"raise"}, value : {0}, exc : {"PostgresError", "Exception"}]
CloseOutcomes == {"ok", "PostgresError", "Exception"}

ConnCall(op, outcome, value) == [op |-> op, outcome |-> outcome, value |-> value]

\* The two except clauses of test_connection, for the copy that runs
ExceptHandler(who, exc) ==
    IF exc = "PostgresError"
    THEN Failure(IF who = "testcase" THEN <<"Database connection failed: ", exc>>
                 ELSE <<"Connection failed: ", exc>>)
    ELSE Failure(<<"Unexpected error during connection test: ", exc>>)

ConnectedTo(cfg) == <<cfg.user, "@", cfg.host, ":", cfg.port, "/", cfg.database>>

InitConn ==
    /\ connWho \in {"script", "testcase"}
    /\ connpc = "call"
    /\ config \in ConnConfigs
    /\ connState = "none"
    /\ connPending = NoPending
    /\ connLog = <<>>
    /\ connResult = NoResult
    /\ EnvIdle /\ RunnerIdle /\ CtlIdle /\ MainIdle

\* test_connection: "conn = await asyncpg.connect(**config)"
TestConnConnect ==
    /\ connpc = "call"
    /\ \E o \in ConnectOutcomes :
          /\ connLog' = Append(connLog, ConnCall("connect", o, 0))
          /\ IF o = "ok"
             THEN connState' = "open" /\ connpc' = "query" /\ UNCHANGED connResult
             ELSE /\ connResult' = ExceptHandler(connWho, o)
                  /\ connpc' = "returned"
                  /\ UNCHANGED connState
    /\ UNCHANGED <<connWho, config, connPending, nonConnVars>>

ResultIsOneMutantNoCheck(value) == TRUE

\* "if result == 1" of the test case's test_connection
ResultIsOne(value) == value = 1

\* How the inner try body ends after fetchval: the test case returns on the
\* value, the script discards the value and falls through to the print
TryBodyEnd(who, o, cfg) ==
    IF o.kind = "raise" THEN [kind |-> "raise", exc |-> o.exc, result |-> NoResult]
    ELSE IF who = "script" THEN [kind |-> "fallthrough", exc |-> "none", result |-> NoResult]
    ELSE IF ResultIsOne(o.value)
    THEN [kind |-> "return", exc |-> "none",
          result |-> Success(<<"Successfully connected to ">> \o ConnectedTo(cfg))]
    ELSE [kind |-> "return", exc |-> "none",
          result |-> Failure(<<"Connection succeeded but query returned unexpected result">>)]

\* test_connection: "await conn.fetchval("SELECT 1;")" and what follows in the try body
TestConnFetch ==
    /\ connpc = "query"
    /\ \E o \in FetchOutcomes :
          /\ connLog' = Append(connLog, ConnCall("fetchval SELECT 1", o.kind, o.value))
          /\ connPending' = TryBodyEnd(connWho, o, config)
    /\ connpc' = "finally"
    /\ UNCHANGED <<connWho, config, connState, connResult, nonConnVars>>

FinallyRunsMutantOnlyOnSuccess(pending) == pending.kind # "raise"

\* "finally: await conn.close()" runs however the try body ended
FinallyRuns(pending) == TRUE

\* What test_connection returns once the finally clause is over
AfterFinally(who, pending, cfg) ==
    CASE pending.kind = "raise" -> ExceptHandler(who, pending.exc)
      [] pending.kind = "return" -> pending.result
      [] OTHER -> Success(<<"Connection successful to ">> \o ConnectedTo(cfg))

\* test_connection: the finally clause, then the return or the except clause.
\* An exception of close() replaces the pending return or exception; the
\* connection counts as closed once close() has been called on it.
TestConnClose ==
    /\ connpc = "finally"
    /\ IF FinallyRuns(connPending)
       THEN \E o \in CloseOutcomes :
               /\ connLog' = Append(connLog, ConnCall("close", o, 0))
               /\ connState' = "closed"
               /\ connResult' = IF o = "ok" THEN AfterFinally(connWho, connPending, config)
                                ELSE ExceptHandler(connWho, o)
       ELSE /\ connResult' = AfterFinally(connWho, connPending, config)
            /\ UNCHANGED <<connLog, connState>>
    /\ connpc' = "returned"
    /\ UNCHANGED <<connWho, config, connPending, nonConnVars>>

NextConn == TestConnConnect \/ TestConnFetch \/ TestConnClose

SpecConn == InitConn /\ [][NextConn]_vars

\* ------------------------------------------------------------ entry points
\* main() of postgres-conn-test.py ("script") and test_database_connection()
\* of the test case ("tdc")
InitMain ==
    /\ mflow \in {"script", "tdc"}
    /\ mpc = IF mflow = "script" THEN "loadenv" ELSE "ensure"
    /\ envFile \in FlowFiles
    /\ mResult = NoResult
    /\ environ \in FlowEnvs
    /\ environ0 = environ /\ prevEnviron = environ
    /\ envpc = "idle" /\ lastLine = NoLine /\ nLines = 0
    /\ ctlOp = IF mflow = "tdc" THEN "ensure" ELSE "none"
    /\ ctlpc = IF mflow = "tdc" THEN "begin" ELSE "idle"
    /\ compose_cmd = "None" /\ ctlLog = <<>> /\ ctlResult = NoResult
    /\ RunnerIdle
    /\ ConnIdle

Exit(code) == [kind |-> "exit", success |-> (code = 0), message |-> code]

\* test_database_connection: the return of ensure_container_running() and
\* "if not container_ok"
TdcAfterEnsure ==
    /\ mflow = "tdc" /\ mpc = "ensure"
    /\ ctlpc = "returned"
    /\ IF ctlResult.kind = "raised"
       THEN mResult' = ctlResult /\ mpc' = "done"
       ELSE IF ~ctlResult.success
       THEN /\ mResult' = Failure(<<"Cannot test connection: ", ctlResult.message>>)
            /\ mpc' = "done"
       ELSE mpc' = "loadenv" /\ UNCHANGED mResult
    /\ UNCHANGED <<mflow, envFile, envVars, runnerVars, ctlVars, connVars>>

\* "load_env_file()" of either entry point
MainLoadEnv ==
    /\ mflow \in {"script", "tdc"} /\ mpc = "loadenv"
    /\ environ' = load_env_file(environ, envFile)
    /\ envpc' = "returned"
    /\ mpc' = "config"
    /\ UNCHANGED <<mflow, envFile, mResult, loaderTrace, runnerVars, ctlVars, connVars>>

ValidationErrorMutantNoPasswordCheck(cfg) ==
    IF cfg.user = <<>> THEN "POSTGRES_USER environment variable is not set" ELSE "none"

\* "Validate required fields": the message of the first check that fails
ValidationError(cfg) ==
    IF cfg.password = <<>>
    THEN "POSTGRES_PASSWORD environment variable is not set or is empty"
    ELSE IF cfg.user = <<>> THEN "POSTGRES_USER environment variable is not set"
    ELSE "none"

\* "config = get_db_config()" and the validation of either entry point, up to
\* the call of test_connection.  The script reports on stderr and exits 1;
\* the test case returns a failure; the ValueError of int() is handled by
\* neither and leaves the function.
MainConfig ==
    /\ mflow \in {"script", "tdc"} /\ mpc = "config"
    /\ LET cfg == get_db_config(environ) IN
       IF cfg.raised
       THEN /\ mResult' = Raised("ValueError")
            /\ mpc' = "done"
            /\ UNCHANGED connVars
       ELSE IF ValidationError(cfg) # "none"
       THEN /\ mResult' = IF mflow = "script" THEN Exit(1) ELSE Failure(<<ValidationError(cfg)>>)
            /\ mpc' = "done"
            /\ UNCHANGED connVars
       ELSE /\ config' = cfg
            /\ connWho' = IF mflow = "script" THEN "script" ELSE "testcase"
            /\ connpc' = "call"
            /\ mpc' = "connect"
            /\ UNCHANGED <<mResult, connState, connPending, connLog, connResult>>
    /\ UNCHANGED <<mflow, envFile, envVars, runnerVars, ctlVars>>

\* "sys.exit(0 if ok else 1)" of the script, "return success, message" of the test case
MainFinish ==
    /\ mflow \in {"script", "tdc"} /\ mpc = "connect"
    /\ connpc = "returned"
    /\ mResult' = IF mflow = "script" THEN Exit(IF connResult.success THEN 0 ELSE 1)
                  ELSE connResult
    /\ mpc' = "done"
    /\ UNCHANGED <<mflow, envFile, envVars, runnerVars, ctlVars, connVars>>

NextMain ==
    \/ CtlBegin \/ EnsureProbe \/ EnsureCheck \/ EnsureStart
    \/ TdcAfterEnsure \/ MainLoadEnv \/ MainConfig \/ MainFinish
    \/ TestConnConnect \/ TestConnFetch \/ TestConnClose

SpecMain == InitMain /\ [][NextMain]_vars

\* ================================================================ claims
\* ---- aggregate runner

\* The names discover_test_cases is specified to find: regular files of the
\* directory named test_*.py
DiscoverableNames ==
    IF dirEntries.exists
    THEN { e.name : e \in { d \in dirEntries.entries :
               d.isFile /\ StartsWith(d.name, TestPrefix) /\ EndsWith(d.name, PySuffix) } }
    ELSE {}

NoTestsLine == <<"ERROR: No test cases found in test_cases directory">>

AllPassed == \A i \in 1..Len(results) : results[i][2] = TRUE

\* C1: main() returns 0 exactly when at least one test file was discovered and
\* every collected result passed; it returns 1 when some result failed, and
\* when nothing was discovered it prints the "No test cases found" error,
\* runs nothing and returns 1.
C1_ExitStatus ==
    rpc = "returned" =>
        /\ exitCode \in {0, 1}
        /\ (exitCode = 0) <=> (DiscoverableNames # {} /\ AllPassed)
        /\ (~AllPassed) => exitCode = 1
        /\ DiscoverableNames = {} =>
              exitCode = 1 /\ NoTestsLine \in printed /\ executed = <<>> /\ results = <<>>

C1_Witness ==
    /\ rpc = "returned" /\ exitCode = 0
    /\ Len(results) >= 2 /\ AllPassed

RaisingRuns ==
    { i \in 1..Len(executed) : executed[i].behaviour.kind \in {"loadRaises", "raises"} }

OkRuns ==
    { i \in 1..Len(executed) :
        /\ executed[i].behaviour.kind = "returns"
        /\ executed[i].behaviour.success
        /\ executed[i].behaviour.message = "ok" }

Summarized == rpc = "returned" /\ \E line \in printed : line[1] = "Total:"

\* C3: at the Summarize stage the results hold exactly one entry per
\* discovered test file, none skipped and none run twice, in ascending
\* filename order, whatever each test returned or raised.
C3_OneResultPerFileSorted ==
    Summarized =>
        /\ Len(results) = Cardinality(DiscoverableNames)
        /\ Len(executed) = Len(results)
        /\ { executed[i].file : i \in 1..Len(executed) } = DiscoverableNames
        /\ \A i \in 1..Len(results) : results[i][1] = PathStem(executed[i].file)
        /\ \A i, j \in 1..Len(executed) :
              i < j => StrLess(executed[i].file, executed[j].file)

C3_Witness ==
    /\ Summarized
    /\ Len(results) >= 2
    /\ RaisingRuns # {}
    /\ Cardinality(dirEntries.entries) > Len(results)

\* ---- environment loader

\* C4: every key present in the environment before load_env_file runs keeps
\* its value; the loader only adds keys that were absent, also across
\* repeated loads and across repeated lines for one key.
C4_ExistingKeysKept ==
    /\ \A k \in DOMAIN environ0 : k \in DOMAIN environ /\ environ[k] = environ0[k]
    /\ \A k \in DOMAIN prevEnviron : k \in DOMAIN environ /\ environ[k] = prevEnviron[k]

C4_Witness ==
    /\ lastLine # NoLine
    /\ ~ParseEnvLine(lastLine).skip
    /\ ParseEnvLine(lastLine).key \in DOMAIN environ0
    /\ ParseEnvLine(lastLine).value # environ0[ParseEnvLine(lastLine).key]

\* What the specification says of a line: KEY and VALUE are the trimmed parts
\* around the first "=", and one layer of matching surrounding quotes is a
\* first and a last character that are the same quote character.
LineKey(raw) == Strip(SplitFirst(Strip(raw), "=")[1])
LineValue(raw) == Strip(SplitFirst(Strip(raw), "=")[2])
WellFormedLine(raw) ==
    /\ Strip(raw) # <<>>
    /\ Head(Strip(raw)) # "#"
    /\ Contains(Strip(raw), "=")
    /\ LineKey(raw) # <<>>
OneQuoteLayerStripped(v) ==
    IF Len(v) >= 2 /\ v[1] = v[Len(v)] /\ v[1] \in {DQ, SQ}
    THEN SubSeq(v, 2, Len(v) - 1)
    ELSE v

\* C5: for a well-formed line KEY=VALUE whose KEY is not yet set, after the
\* load KEY equals VALUE (split on the first "=", trimmed) with exactly one
\* layer of matching surrounding quotes stripped.
C5_ValueAsWritten ==
    ( /\ lastLine # NoLine
      /\ WellFormedLine(lastLine)
      /\ LineKey(lastLine) \notin DOMAIN prevEnviron ) =>
        /\ LineKey(lastLine) \in DOMAIN environ
        /\ environ[LineKey(lastLine)] = OneQuoteLayerStripped(LineValue(lastLine))

\* ---- container controller

CtlReturned == ctlOp \in {"ensure", "down", "up"} /\ ctlpc = "returned"

\* The start, stop and running-status calls of the operation that timed out
TimedOutCalls ==
    { i \in 1..Len(ctlLog) :
        ctlLog[i].cmd \in {"up", "stop", "ps"} /\ ctlLog[i].outcome.kind = "timeout" }

\* C6: in ensure up, bring down and bring up, a start, stop or status call
\* that times out makes the operation return a failure result, with no
\* exception escaping; a timed-out call never leads to a success result.
C6_TimeoutMeansFailure ==
    (CtlReturned /\ TimedOutCalls # {}) =>
        ctlResult.kind = "returned" /\ ctlResult.success = FALSE

\* The initial status check of ensure up, when it listed the service as not running
StatusCalls == { i \in 1..Len(ctlLog) : ctlLog[i].cmd = "ps" }
FirstStatusCall == CHOOSE i \in StatusCalls : \A j \in StatusCalls : i <= j
NotRunningAtFirstCheck ==
    /\ StatusCalls # {}
    /\ ctlLog[FirstStatusCall].outcome.kind = "exit"
    /\ ~ContainsSub(ctlLog[FirstStatusCall].outcome.stdout, ServiceName)

\* C9 as stated: when the service is not listed as running at the initial
\* check, ensure up starts it, waits, re-checks the running status, and
\* returns success only if that second check shows the service running.
C9_RecheckedAfterStart ==
    (ctlOp = "ensure" /\ ctlpc = "returned" /\ NotRunningAtFirstCheck /\ ctlResult.success) =>
        \E i \in StatusCalls :
            /\ i > FirstStatusCall
            /\ ctlLog[i - 1].cmd \in {"up", "sleep"}
            /\ ContainsSub(ctlLog[i].outcome.stdout, ServiceName)

\* C9 as amended: when the service is not listed as running at the initial
\* check, ensure up runs the detached start and nothing else but the settle
\* wait: it returns success exactly when the start exited with code 0, after
\* sleeping the settle interval, and it never lists the status a second time.
C9_StartedWithoutRecheck ==
    (ctlOp = "ensure" /\ ctlpc = "returned" /\ NotRunningAtFirstCheck) =>
        LET k == FirstStatusCall IN
        /\ StatusCalls = {k}
        /\ Len(ctlLog) > k
        /\ ctlLog[k + 1].cmd = "up"
        /\ ctlResult.kind = "returned"
        /\ ctlResult.success <=>
              (ctlLog[k + 1].outcome.kind = "exit" /\ ctlLog[k + 1].outcome.code = 0)
        /\ IF ctlResult.success
           THEN Len(ctlLog) = k + 2 /\ ctlLog[k + 2] = Sleep(EnsureSettle)
           ELSE Len(ctlLog) = k + 1

C9_Witness ==
    /\ ctlOp = "ensure" /\ ctlpc = "returned" /\ NotRunningAtFirstCheck
    /\ ctlResult = Success("Container started successfully")
    /\ ctlLog[Len(ctlLog)] = Sleep(EnsureSettle)

\* ---- connectivity checker

ConnCalls(op) == { i \in 1..Len(connLog) : connLog[i].op = op }
ConnectionOpened == \E i \in ConnCalls("connect") : connLog[i].outcome = "ok"

QueryReturned(v) ==
    \E i \in ConnCalls("fetchval SELECT 1") :
        connLog[i].outcome = "value" /\ connLog[i].value = v
CloseSucceeded == \E i \in ConnCalls("close") : connLog[i].outcome = "ok"

\* C8 as stated: either checker reports success only if SELECT 1 was run on
\* the opened connection and the value it returned equals 1.
C8_SuccessOnlyOnOne ==
    (connpc = "returned" /\ connResult.success) => (ConnectionOpened /\ QueryReturned(1))

\* C8 as amended: the test case's checker reports success exactly when the
\* connection opened, SELECT 1 returned 1 and close did not raise; the
\* script's checker reports success exactly when connect, the query and
\* close all completed without raising, whatever value the query returned.
C8_SuccessPerChecker ==
    connpc = "returned" =>
        /\ connWho = "testcase" =>
              (connResult.success <=> (ConnectionOpened /\ QueryReturned(1) /\ CloseSucceeded))
        /\ connWho = "script" =>
              (connResult.success <=>
                  (ConnectionOpened /\ (\E v \in FetchValues : QueryReturned(v)) /\ CloseSucceeded))

C8_Witness ==
    /\ connpc = "returned" /\ connWho = "testcase"
    /\ \E v \in FetchValues \ {1} : QueryReturned(v)
    /\ CloseSucceeded
    /\ ~connResult.success

\* ---- entry points

\* The configuration the run resolves: the environment it starts with, with
\* the .env file it finds loaded into it
ResolvedConfig == get_db_config(load_env_file(environ0, envFile))
ConfigurationError ==
    \/ ResolvedConfig.raised
    \/ ResolvedConfig.password = <<>>
    \/ ResolvedConfig.user = <<>>

SubprocessCalls == { i \in 1..Len(ctlLog) : ctlLog[i].cmd # "sleep" }
EndedInFailure == mResult.kind \in {"exit", "returned", "raised"} /\ ~mResult.success

\* C10 as stated: with a missing or empty credential or a non-numeric port,
\* the run starts no container-CLI subprocess and opens no database
\* connection, in the script and in the test case alike.
C10_NoExternalCallOnConfigError ==
    (mflow \in {"script", "tdc"} /\ ConfigurationError) =>
        SubprocessCalls = {} /\ connLog = <<>>

\* C10 as amended: with such a configuration the run ends in failure and no
\* database connection is ever attempted, in both entry points; the script
\* starts no container-CLI subprocess, while the test case has already run
\* ensure_container_running, subprocesses included, before it resolves and
\* validates the configuration.
C10_NoConnectionOnConfigError ==
    (mflow \in {"script", "tdc"} /\ ConfigurationError) =>
        /\ connLog = <<>> /\ connState = "none"
        /\ mflow = "script" => SubprocessCalls = {}
        /\ mpc = "done" => EndedInFailure
        /\ (mflow = "tdc" /\ mpc \notin {"ensure", "done"}) => SubprocessCalls # {}

C10_Witness ==
    /\ mflow = "tdc" /\ mpc = "done" /\ ConfigurationError
    /\ ctlResult.success /\ SubprocessCalls # {}
    /\ mResult = Failure(<<"POSTGRES_PASSWORD environment variable is not set or is empty">>)

\* ---- run_test_case: the function lookup

\* The callable named like the file stem: "test_" plus the stem without its leading "test_"
StemNamed(file) ==
    TestPrefix \o (IF StartsWith(PathStem(file), TestPrefix)
                   THEN SubSeq(PathStem(file), Len(TestPrefix) + 1, Len(PathStem(file)))
                   ELSE PathStem(file))
TestCallables == { a \in moduleAttrs : StartsWith(a.name, TestPrefix) /\ a.callable }
HasStemNamedCallable == \E a \in TestCallables : a.name = StemNamed(test_files[1])
NoFunctionReported == results[1][3] = <<"No test function found in module">>

\* C11: if the module defines a callable named like the file stem,
\* run_test_case invokes exactly that callable; it falls back to the first
\* callable whose name starts with "test_" only when there is no such
\* callable, and it reports "No test function found" only when the module
\* has no callable starting with "test_" at all.
C11_StemNamedCallableInvoked ==
    rpc = "called" =>
        /\ HasStemNamedCallable => invoked = StemNamed(test_files[1])
        /\ (~HasStemNamedCallable /\ TestCallables # {}) =>
              invoked = FirstTestCallable(moduleAttrs).name
        /\ NoFunctionReported => TestCallables = {}

====
